---- MODULE Spec2Model ----
\* Stock viewer: the date-range filter (dashboard/time_filtering.py) and the
\* three Dash callbacks wired around the "filtered-df" store (main.py).
\*
\* Time is counted in slots: a timestamp is day * SlotsPerDay + slot, slot 0
\* being midnight.  Prices are counted in cents.
EXTENDS Integers, Sequences, FiniteSets, TLC

\* ---------------------------------------------------------------- bounds
SlotsPerDay == 2
MaxDay == 2
MaxLen == 3
MaxDays == 3
MaxChanges == 2

\* ---------------------------------------------------------------- time
Date(ts) == ts \div SlotsPerDay

\* A datetime.date used as a slice bound on a DatetimeIndex is taken as the
\* datetime at midnight of that date.
Midnight(day) == day * SlotsPerDay

Columns == {"open", "high", "low", "close", "volume"}

\* ---------------------------------------------------------------- results
Return(v) == [raised |-> "none", value |-> v]
Raise(e) == [raised |-> e, value |-> <<>>]

None == <<>>
Some(x) == <<x>>

\* ---------------------------------------------------------------- frames
Unsorted(df) == df

RECURSIVE sort_index(_)
sort_index(df) ==
  IF Len(df) = 0 THEN <<>>
  ELSE LET i == CHOOSE k \in 1..Len(df) :
                  \A j \in 1..Len(df) : df[k].timestamp <= df[j].timestamp
           rest == [j \in 1..(Len(df) - 1) |-> IF j < i THEN df[j] ELSE df[j + 1]]
       IN <<df[i]>> \o sort_index(rest)

\* df.loc[start_day:last_day] on an ascending index, both bounds dates
loc(df, start_day, last_day) ==
  LET Inside(r) == /\ Midnight(start_day) <= r.timestamp
                   /\ r.timestamp <= Midnight(last_day)
  IN SelectSeq(df, Inside)

StartDayAdded(last_day, days) == last_day + days

\* last_day - relativedelta(days = days)
StartDay(last_day, days) == last_day - days

filter_time_quiet(df, days) ==
  IF Len(df) = 0 THEN Return(<<>>)
  ELSE Return(loc(sort_index(df), StartDay(Date(df[1].timestamp), days),
                  Date(df[1].timestamp)))

filter_time(df, days) ==
  IF Len(df) = 0 THEN Raise("IndexError")
  ELSE LET last_day == Date(df[1].timestamp)
           start_day == StartDay(last_day, days)
       IN Return(loc(sort_index(df), start_day, last_day))

Rows(df) == {df[i] : i \in 1..Len(df)}
Ascending(df) == \A i \in 1..(Len(df) - 1) : df[i].timestamp < df[i + 1].timestamp
Descending(df) == \A i \in 1..(Len(df) - 1) : df[i].timestamp > df[i + 1].timestamp

\* ---------------------------------------------------------------- startup data
symbol_dict == [AAPL |-> "Apple", NVDA |-> "Nvidia", TSLA |-> "Tesla", IBM |-> "IBM"]

Symbols == DOMAIN symbol_dict

ohlc_options == {"open", "high", "low", "close"}

slider_marks == [i \in 0..6 |->
  <<"1 day", "1 week", "1 month", "3 months", "1 year", "5 years", "Max">>[i + 1]]

SymbolNo(symbol) ==
  CASE symbol = "AAPL" -> 1 [] symbol = "NVDA" -> 2
    [] symbol = "TSLA" -> 3 [] symbol = "IBM" -> 4

Bar(ts, p, n) == [timestamp |-> ts, open |-> p, high |-> p + 9, low |-> p - 6,
                  close |-> p + 2, volume |-> 1000 + n]

\* The local data files hold the most recent record first.  Daily bars are
\* stamped at midnight; intraday bars carry a time of day.
stock_dataframe(symbol) ==
  LET k == SymbolNo(symbol)
      last == 4000 + k
      dailyAge == <<0, 5, 20, 60, 300, 1000, 3000>>
      intraAge == <<0, 1, 1, 3, 20, 60>>
      intraSlot == <<1, 1, 0, 1, 1, 1>>
      daily == [i \in 1..Len(dailyAge) |->
                  Bar(Midnight(last - dailyAge[i]), 100 * k + 4 + 3 * i, i)]
      intraday == [i \in 1..Len(intraAge) |->
                  Bar(Midnight(last - intraAge[i]) + intraSlot[i], 100 * k + 54 + 3 * i, i)]
  IN <<daily, intraday>>

\* ---------------------------------------------------------------- json
\* to_json writes each column as {epoch milliseconds: value}; the epoch is kept
\* as <<whole days, milliseconds into the day>>.
MsPerSlot == 86400000 \div SlotsPerDay
EpochMs(ts) == <<ts \div SlotsPerDay, (ts % SlotsPerDay) * MsPerSlot>>
FromEpochMs(e) == e[1] * SlotsPerDay + e[2] \div MsPerSlot

to_json(df) ==
  [c \in Columns |-> [i \in 1..Len(df) |-> <<EpochMs(df[i].timestamp), df[i][c]>>]]

read_json(json) ==
  [i \in 1..Len(json["open"]) |->
     [timestamp |-> FromEpochMs(json["open"][i][1]),
      open |-> json["open"][i][2], high |-> json["high"][i][2],
      low |-> json["low"][i][2], close |-> json["close"][i][2],
      volume |-> json["volume"][i][2]]]

\* ---------------------------------------------------------------- callbacks
VARIABLES df_dict, stock_picker_dropdown, ohlc_radio, time_slider,
          filtered_df, stock_graph, highest_value, lowest_value,
          pending, changes

wvars == <<df_dict, stock_picker_dropdown, ohlc_radio, time_slider,
           filtered_df, stock_graph, highest_value, lowest_value,
           pending, changes>>

\* the inputs and results of direct calls of filter_time
VARIABLES series, lookback, pc, result, refiltered, lookback2, wider

hvars == <<series, lookback, pc, result, refiltered, lookback2, wider>>

vars == <<wvars, hvars>>

ChooseSeriesOffByOne(pair, time_index) == IF time_index < 2 THEN pair[2] ELSE pair[1]

\* dff_intraday if time_index <= 2 else dff_daily
ChooseSeries(pair, time_index) == IF time_index <= 2 THEN pair[2] ELSE pair[1]

days == [i \in 0..5 |-> <<1, 7, 30, 90, 365, 5 * 365>>[i + 1]]

filter_df(stock, time_index) ==
  IF stock \notin DOMAIN df_dict THEN Raise("KeyError")
  ELSE LET dff == ChooseSeries(df_dict[stock], time_index)
       IN IF time_index = 6 THEN Return(to_json(dff))
          ELSE IF time_index \notin DOMAIN days THEN Raise("KeyError")
          ELSE LET r == filter_time(dff, days[time_index])
               IN IF r.raised # "none" THEN r ELSE Return(to_json(r.value))

update_graph(json_df, stock, ohlc) ==
  IF json_df = None THEN Raise("ValueError")
  ELSE LET dff == read_json(json_df[1])
       IN Return([x |-> [i \in 1..Len(dff) |-> dff[i].timestamp],
                  y |-> [i \in 1..Len(dff) |-> dff[i][ohlc]],
                  ylabel |-> IF ohlc = "close" THEN "Stock value (us-$)" ELSE ohlc,
                  title |-> symbol_dict[stock]])

\* Half-way amounts (in cents, below 1000) that "{:.1f}" rounds up: the
\* nearest double of the amount lies above it, or is exact with an odd tenth.
TiesRoundedUp ==
  {5, 45, 55, 65, 75, 105, 135, 155, 175, 185, 235, 245, 275, 285, 295, 335,
   345, 375, 385, 395, 415, 445, 465, 475, 495, 515, 545, 565, 575, 595, 615,
   645, 665, 675, 695, 715, 745, 765, 775, 795, 805, 815, 855, 865, 875, 905,
   915, 955, 965, 975}

Label(tenths) == [nan |-> FALSE, whole |-> tenths \div 10, tenth |-> tenths % 10]
NanLabel == [nan |-> TRUE, whole |-> 0, tenth |-> 0]

Format0f(cents) ==
  Label(IF cents % 100 >= 50 THEN (cents \div 100 + 1) * 10 ELSE (cents \div 100) * 10)

\* f"{value:.1f} $"
Format1f(cents) ==
  Label(IF cents % 10 > 5 \/ (cents % 10 = 5 /\ cents \in TiesRoundedUp)
        THEN cents \div 10 + 1 ELSE cents \div 10)

ColumnOf(dff, ohlc) == {dff[i][ohlc] : i \in 1..Len(dff)}
Max(S) == CHOOSE v \in S : \A w \in S : w <= v
Min(S) == CHOOSE v \in S : \A w \in S : v <= w

highest_lowest_value(json_df, ohlc) ==
  IF json_df = None THEN Raise("ValueError")
  ELSE LET col == ColumnOf(read_json(json_df[1]), ohlc)
       IN IF col = {} THEN Return(<<NanLabel, NanLabel>>)
          ELSE Return(<<Format1f(Max(col)), Format1f(Min(col))>>)

\* ---------------------------------------------------------------- callback graph
Callbacks == {"filter_df", "update_graph", "highest_lowest_value"}

InputsStoreUndeclared(cb) ==
  CASE cb = "filter_df" -> {"stock-picker-dropdown.value", "time-slider.value"}
    [] cb = "update_graph" -> {"stock-picker-dropdown.value", "ohlc-radio.value"}
    [] cb = "highest_lowest_value" -> {"filtered-df.data", "ohlc-radio.value"}

InputsOhlcUndeclared(cb) ==
  CASE cb = "filter_df" -> {"stock-picker-dropdown.value", "time-slider.value"}
    [] cb = "update_graph" ->
         {"filtered-df.data", "stock-picker-dropdown.value", "ohlc-radio.value"}
    [] cb = "highest_lowest_value" -> {"filtered-df.data"}

Inputs(cb) ==
  CASE cb = "filter_df" -> {"stock-picker-dropdown.value", "time-slider.value"}
    [] cb = "update_graph" ->
         {"filtered-df.data", "stock-picker-dropdown.value", "ohlc-radio.value"}
    [] cb = "highest_lowest_value" -> {"filtered-df.data", "ohlc-radio.value"}

Outputs(cb) ==
  CASE cb = "filter_df" -> {"filtered-df.data"}
    [] cb = "update_graph" -> {"stock-graph.figure"}
    [] cb = "highest_lowest_value" -> {"highest-value.children", "lowest-value.children"}

\* the callbacks a changed property requests
Triggered(prop) == {cb \in Callbacks : prop \in Inputs(cb)}

\* a requested callback waits while one of its inputs is still to be
\* written by another requested callback
Blocked(cb) == \E other \in pending \ {cb} : Outputs(other) \cap Inputs(cb) # {}

InitApp ==
  /\ df_dict = [symbol \in Symbols |-> stock_dataframe(symbol)]
  /\ stock_picker_dropdown = "AAPL"
  /\ ohlc_radio = "close"
  /\ time_slider = 2
  /\ filtered_df = None
  /\ stock_graph = None
  /\ highest_value = None
  /\ lowest_value = None
  /\ pending = Callbacks
  /\ changes = 0

SelectStock ==
  /\ changes < MaxChanges
  /\ \E stock \in Symbols \ {stock_picker_dropdown} : stock_picker_dropdown' = stock
  /\ pending' = pending \cup Triggered("stock-picker-dropdown.value")
  /\ changes' = changes + 1
  /\ UNCHANGED <<hvars, df_dict, ohlc_radio, time_slider, filtered_df, stock_graph,
                 highest_value, lowest_value>>

MoveSlider ==
  /\ changes < MaxChanges
  /\ \E time_index \in (DOMAIN slider_marks) \ {time_slider} : time_slider' = time_index
  /\ pending' = pending \cup Triggered("time-slider.value")
  /\ changes' = changes + 1
  /\ UNCHANGED <<hvars, df_dict, stock_picker_dropdown, ohlc_radio, filtered_df, stock_graph,
                 highest_value, lowest_value>>

SelectOhlc ==
  /\ changes < MaxChanges
  /\ \E ohlc \in ohlc_options \ {ohlc_radio} : ohlc_radio' = ohlc
  /\ pending' = pending \cup Triggered("ohlc-radio.value")
  /\ changes' = changes + 1
  /\ UNCHANGED <<hvars, df_dict, stock_picker_dropdown, time_slider, filtered_df, stock_graph,
                 highest_value, lowest_value>>

RunFilterDf ==
  /\ "filter_df" \in pending
  /\ ~Blocked("filter_df")
  /\ LET r == filter_df(stock_picker_dropdown, time_slider)
     IN IF r.raised = "none"
        THEN /\ filtered_df' = Some(r.value)
             /\ pending' = (pending \ {"filter_df"}) \cup Triggered("filtered-df.data")
        ELSE /\ filtered_df' = filtered_df
             /\ pending' = pending \ {"filter_df"}
  /\ UNCHANGED <<hvars, df_dict, stock_picker_dropdown, ohlc_radio, time_slider, stock_graph,
                 highest_value, lowest_value, changes>>

RunUpdateGraph ==
  /\ "update_graph" \in pending
  /\ ~Blocked("update_graph")
  /\ LET r == update_graph(filtered_df, stock_picker_dropdown, ohlc_radio)
     IN stock_graph' = IF r.raised = "none" THEN Some(r.value) ELSE stock_graph
  /\ pending' = pending \ {"update_graph"}
  /\ UNCHANGED <<hvars, df_dict, stock_picker_dropdown, ohlc_radio, time_slider, filtered_df,
                 highest_value, lowest_value, changes>>

RunHighestLowestValue ==
  /\ "highest_lowest_value" \in pending
  /\ ~Blocked("highest_lowest_value")
  /\ LET r == highest_lowest_value(filtered_df, ohlc_radio)
     IN IF r.raised = "none"
        THEN /\ highest_value' = Some(r.value[1])
             /\ lowest_value' = Some(r.value[2])
        ELSE UNCHANGED <<highest_value, lowest_value>>
  /\ pending' = pending \ {"highest_lowest_value"}
  /\ UNCHANGED <<hvars, df_dict, stock_picker_dropdown, ohlc_radio, time_slider, filtered_df,
                 stock_graph, changes>>

\* ---------------------------------------------------------------- harness data
\* One record per timestamp; the price columns are a fixed function of it.
Record(ts) == [timestamp |-> ts, open |-> 100 + 7 * ts, high |-> 109 + 7 * ts,
               low |-> 94 + 7 * ts, close |-> 102 + 7 * ts, volume |-> 1000 + ts]

Timestamps == 0..((MaxDay + 1) * SlotsPerDay - 1)

\* every series of at most MaxLen records with unique timestamps, in any order
AllSeries ==
  {<<>>} \cup
  UNION {{[i \in 1..n |-> Record(f[i])] :
             f \in {g \in [1..n -> Timestamps] :
                      \A a, b \in 1..n : a # b => g[a] # g[b]}} : n \in 1..MaxLen}


HarnessIdle ==
  /\ series = <<>>
  /\ lookback = 0
  /\ pc = "off"
  /\ result = Raise("unset")
  /\ refiltered = Raise("unset")
  /\ lookback2 = 0
  /\ wider = Raise("unset")

InitFilter ==
  /\ InitApp
  /\ series \in AllSeries
  /\ lookback \in 0..MaxDays
  /\ pc = "start"
  /\ result = Raise("unset")
  /\ refiltered = Raise("unset")
  /\ lookback2 = 0
  /\ wider = Raise("unset")

\* result = filter_time(series, lookback)
CallFilter ==
  /\ pc = "start"
  /\ result' = filter_time(series, lookback)
  /\ pc' = "filtered"
  /\ UNCHANGED <<wvars, series, lookback, refiltered, lookback2, wider>>

\* refiltered = filter_time(result, lookback)
CallAgain ==
  /\ pc = "filtered"
  /\ result.raised = "none"
  /\ refiltered' = filter_time(result.value, lookback)
  /\ pc' = "refiltered"
  /\ UNCHANGED <<wvars, series, lookback, result, lookback2, wider>>

\* wider = filter_time(series, days2) for some days2 > lookback
CallWider ==
  /\ pc = "filtered"
  /\ \E days2 \in (lookback + 1)..(MaxDays + 1) :
       /\ lookback2' = days2
       /\ wider' = filter_time(series, days2)
  /\ pc' = "widened"
  /\ UNCHANGED <<wvars, series, lookback, result, refiltered>>

NextFilter == CallFilter \/ CallAgain \/ CallWider

SpecFilter == InitFilter /\ [][NextFilter]_vars

\* ---------------------------------------------------------------- the dashboard
Init == InitApp /\ HarnessIdle

Next ==
  \/ SelectStock
  \/ MoveSlider
  \/ SelectOhlc
  \/ RunFilterDf
  \/ RunUpdateGraph
  \/ RunHighestLowestValue

Spec == Init /\ [][Next]_vars

\* ---------------------------------------------------------------- filter_time claims
TimeOrdered(df) == Ascending(df) \/ Descending(df)
Earliest(df) == CHOOSE r \in Rows(df) : \A q \in Rows(df) : r.timestamp <= q.timestamp
Latest(df) == CHOOSE r \in Rows(df) : \A q \in Rows(df) : q.timestamp <= r.timestamp
FirstDay(df) == Date(df[1].timestamp)

\* C1: for a non-empty time-ordered series, filter_time returns, in ascending
\* order, exactly the records whose calendar date lies in
\* [last_day - days, last_day], last_day being the date of the first element
\* as provided; every record of last_day, at any time of day, is included.
C1_ExactDateWindow ==
  (pc = "filtered" /\ series # <<>> /\ TimeOrdered(series)) =>
    /\ result.raised = "none"
    /\ Ascending(result.value)
    /\ Rows(result.value) =
         {r \in Rows(series) : /\ FirstDay(series) - lookback <= Date(r.timestamp)
                               /\ Date(r.timestamp) <= FirstDay(series)}

\* C2: for a non-empty series in ascending or descending order, the result
\* contains the record with the maximum timestamp and no record dated more
\* than `days` calendar days before that record's date.
C2_AnchoredAtMostRecent ==
  (pc = "filtered" /\ series # <<>> /\ TimeOrdered(series)) =>
    /\ result.raised = "none"
    /\ Latest(series) \in Rows(result.value)
    /\ \A r \in Rows(result.value) :
         Date(r.timestamp) >= Date(Latest(series).timestamp) - lookback

\* C5: filtering an already filtered result again with the same days returns
\* the same set of records.
C5_Idempotent ==
  pc = "refiltered" =>
    /\ refiltered.raised = "none"
    /\ Rows(refiltered.value) = Rows(result.value)

Stored == read_json(filtered_df[1])
LabelCents(label) == (label.whole * 10 + label.tenth) * 10

\* C3: every change of an input requests every callback that reads it, the
\* store's consumers are requested when the store is written, and once nothing
\* is requested the store, the chart and both labels equal their defining
\* functions of the current inputs.
C3_Settled ==
  pending = {} =>
    /\ filtered_df = Some(filter_df(stock_picker_dropdown, time_slider).value)
    /\ stock_graph =
         Some(update_graph(filtered_df, stock_picker_dropdown, ohlc_radio).value)
    /\ highest_value = Some(highest_lowest_value(filtered_df, ohlc_radio).value[1])
    /\ lowest_value = Some(highest_lowest_value(filtered_df, ohlc_radio).value[2])

C3_Requests ==
  /\ (stock_picker_dropdown' # stock_picker_dropdown \/ time_slider' # time_slider)
       => "filter_df" \in pending'
  /\ (stock_picker_dropdown' # stock_picker_dropdown \/ ohlc_radio' # ohlc_radio
        \/ filtered_df' # filtered_df)
       => "update_graph" \in pending'
  /\ (ohlc_radio' # ohlc_radio \/ filtered_df' # filtered_df)
       => "highest_lowest_value" \in pending'

C3_Recomputed == [](C3_Settled) /\ [][C3_Requests]_vars

C3_Witness ==
  /\ pending = {}
  /\ changes = MaxChanges
  /\ stock_picker_dropdown # "AAPL"
  /\ ohlc_radio # "close"
  /\ stock_graph # None
  /\ highest_value # None

\* C4: for every ticker and every window index 0..6 the stored dataset is a
\* contiguous slice of the chosen source series in ascending chronological
\* order, and the source series are left unchanged.
C4_SortedContiguousSlice ==
  ("filter_df" \notin pending /\ filtered_df # None) =>
    LET source == ChooseSeries(df_dict[stock_picker_dropdown], time_slider)
    IN /\ Ascending(Stored)
       /\ Rows(Stored) \subseteq Rows(source)
       /\ \A r \in Rows(source) :
            (\E a, b \in Rows(Stored) :
                a.timestamp <= r.timestamp /\ r.timestamp <= b.timestamp)
              => r \in Rows(Stored)
       /\ df_dict = [symbol \in Symbols |-> stock_dataframe(symbol)]

\* C4 (amended): for window indices 0..5 the stored dataset is a contiguous
\* slice of the chosen source series in ascending chronological order; for
\* index 6 it is the whole chosen series in the order of the source, most
\* recent record first; the source series are left unchanged.
C4_SliceSortedBelowMax ==
  ("filter_df" \notin pending /\ filtered_df # None) =>
    LET source == ChooseSeries(df_dict[stock_picker_dropdown], time_slider)
    IN /\ time_slider # 6 => Ascending(Stored)
       /\ time_slider = 6 => (Stored = source /\ Descending(Stored))
       /\ Rows(Stored) \subseteq Rows(source)
       /\ \A r \in Rows(source) :
            (\E a, b \in Rows(Stored) :
                a.timestamp <= r.timestamp /\ r.timestamp <= b.timestamp)
              => r \in Rows(Stored)
       /\ df_dict = [symbol \in Symbols |-> stock_dataframe(symbol)]

C4_Witness ==
  /\ "filter_df" \notin pending
  /\ filtered_df # None
  /\ time_slider = 4
  /\ Len(Stored) > 2
  /\ Stored # df_dict[stock_picker_dropdown][1]
  /\ changes > 0

\* C7 (as stated): the values shown in the two labels bound every value of
\* the selected column of the stored dataset.
C7_LabelsBoundColumn ==
  ("highest_lowest_value" \notin pending /\ highest_value # None
     /\ ~highest_value[1].nan) =>
    \A v \in ColumnOf(Stored, ohlc_radio) :
      LabelCents(lowest_value[1]) <= v /\ v <= LabelCents(highest_value[1])

\* C7 (amended): the labels are the column's maximum and minimum rounded to
\* one decimal, so each lies within 0.05 of the true extreme and
\* min_label - 0.05 <= v <= max_label + 0.05 for every value v of the column.
C7_LabelsBoundColumnRounded ==
  ("highest_lowest_value" \notin pending /\ highest_value # None
     /\ ~highest_value[1].nan) =>
    LET col == ColumnOf(Stored, ohlc_radio)
    IN /\ col # {}
       /\ ~lowest_value[1].nan
       /\ \A v \in col : /\ LabelCents(lowest_value[1]) - 5 <= v
                         /\ v <= LabelCents(highest_value[1]) + 5
       /\ \E v \in col : /\ LabelCents(highest_value[1]) - 5 <= v
                         /\ v <= LabelCents(highest_value[1]) + 5
       /\ \E v \in col : /\ LabelCents(lowest_value[1]) - 5 <= v
                         /\ v <= LabelCents(lowest_value[1]) + 5

C7_Witness ==
  /\ "highest_lowest_value" \notin pending
  /\ highest_value # None
  /\ ~highest_value[1].nan
  /\ ohlc_radio = "low"
  /\ Cardinality(ColumnOf(Stored, ohlc_radio)) > 1
  /\ \E v \in ColumnOf(Stored, ohlc_radio) : v > LabelCents(highest_value[1])

\* C8: the stored dataset is the reference: the intraday series for indices
\* 0..2 and the daily series otherwise, whole for index 6 and otherwise
\* passed through filter_time with 1, 7, 30, 90, 365, 1825 days; the day-count
\* lookup succeeds for 0..5.
ReferenceDays == (0 :> 1) @@ (1 :> 7) @@ (2 :> 30) @@ (3 :> 90) @@ (4 :> 365) @@ (5 :> 1825)

Reference(stock, i) ==
  LET chosen == IF i \in {0, 1, 2} THEN df_dict[stock][2] ELSE df_dict[stock][1]
  IN IF i = 6 THEN chosen ELSE filter_time(chosen, ReferenceDays[i]).value

C8_MatchesReference ==
  /\ \A i \in 0..5 : i \in DOMAIN days /\ days[i] = ReferenceDays[i]
  /\ ("filter_df" \notin pending) =>
       /\ filtered_df # None
       /\ filtered_df[1] = to_json(Reference(stock_picker_dropdown, time_slider))
       /\ Stored = Reference(stock_picker_dropdown, time_slider)

C8_Witness ==
  /\ "filter_df" \notin pending
  /\ stock_picker_dropdown = "TSLA"
  /\ time_slider = 2
  /\ changes > 0
  /\ Len(Stored) > 1
  /\ Stored # df_dict["TSLA"][2]

\* C10: every chart produced carries the title of the ticker from whose
\* series its plotted data was filtered.
C10_TitleMatchesData ==
  stock_graph # None =>
    \E stock \in Symbols :
      /\ symbol_dict[stock] = stock_graph[1].title
      /\ \E i \in DOMAIN slider_marks, ohlc \in ohlc_options :
           stock_graph[1] = update_graph(Some(filter_df(stock, i).value), stock, ohlc).value

C10_Witness ==
  /\ changes > 0
  /\ stock_picker_dropdown # "AAPL"
  /\ "update_graph" \notin pending
  /\ stock_graph # None
  /\ stock_graph[1].title = symbol_dict[stock_picker_dropdown]
  /\ Len(stock_graph[1].x) > 1
====
